---- MODULE Spec2Model ----
(***************************************************************************)
(* Model of jw_math.hpp (namespace jw): vec2 / vec3 / vec4, quat and mat4. *)
(*                                                                         *)
(* An f32 is modelled bit-exactly by a pair <<m, e>> that stands for the   *)
(* value m * 2^e, in a canonical form: an integer of magnitude at most     *)
(* 2^24 is <<m, 0>>, every other finite value has m odd; <<0, 0>> is +0    *)
(* and <<0, -1>> is -0; <<1, 128>> is +Inf, <<-1, 128>> is -Inf and        *)
(* <<0, 128>> is NaN.  Sums, differences, products, quotients and square   *)
(* roots are rounded to nearest, ties to even, with gradual underflow and  *)
(* overflow to infinity, as IEEE-754 binary32 arithmetic does.  A zero     *)
(* product, quotient or underflow keeps the sign of the exact result, and  *)
(* a quotient by a zero is the infinity of the sign of both operands.      *)
(* Every operation is rounded on its own: a product is rounded before it   *)
(* is added to a sum (no fused multiply-add), which is the code a compiler *)
(* generates for the baseline x86-64 instruction set.  acosf, tanf, sinf   *)
(* and cosf are tabulated on the arguments the model passes to them, with  *)
(* the values the C library returns when it is called at run time (glibc   *)
(* 2.36).  On two arguments of tanf, the halves of radians(60) and of      *)
(* radians(180), the library is one unit in the last place away from the   *)
(* correctly rounded value (0x1.279a76p-1 for 0x1.279a74p-1, -22877334     *)
(* for -22877332); a compiler that evaluates tanf of a constant argument   *)
(* itself produces the correctly rounded one.  No other tabulated value    *)
(* differs between the two.                                                *)
(***************************************************************************)
EXTENDS Integers, Sequences, FiniteSets

VARIABLES self, arg, ret, hist, op

vars == <<self, arg, ret, hist, op>>

(***************************************************************************)
(* Bounds of the model.                                                    *)
(***************************************************************************)
MaxScalar == 2
MaxOps == 2
MaxArg == 1
MaxDiag == 2
MaxDense == 2
MaxPersp == 2

(***************************************************************************)
(* f32: rounding.  f32_round(s, mag, e, sticky) is the f32 nearest to      *)
(* s * (mag + d) * 2^e, where 0 < d < 1 when sticky and d = 0 otherwise;   *)
(* callers pass sticky only with mag >= 2^24.  The magnitude keeps 24      *)
(* bits, or fewer when the exponent would fall below -149.                 *)
(***************************************************************************)
TwoTo24 == 16777216

f32_abs(a) == IF a < 0 THEN 0 - a ELSE a

f32_sign(a) == IF a < 0 THEN 0 - 1 ELSE 1

f32_max(a, b) == IF a < b THEN b ELSE a

f32_min(a, b) == IF a < b THEN a ELSE b

f32_bits4(mag) == <<0, 1, 2, 2, 3, 3, 3, 3, 4, 4, 4, 4, 4, 4, 4, 4>>[mag + 1]

f32_bits8(mag) ==
  IF mag < 16 THEN f32_bits4(mag) ELSE 4 + f32_bits4(mag \div 16)

f32_bits16(mag) ==
  IF mag < 256 THEN f32_bits8(mag) ELSE 8 + f32_bits8(mag \div 256)

f32_bits(mag) ==
  IF mag < 65536 THEN f32_bits16(mag) ELSE 16 + f32_bits16(mag \div 65536)

f32_zeros(mag) == CHOOSE z \in 0..24 : mag % 2^(z + 1) = 2^z

f32_canonical(s, mag, e, z) ==
  IF e + z >= 0 /\ e + z <= 24 /\ mag \div 2^z <= 2^(24 - e - z)
  THEN <<s * (mag \div 2^z) * 2^(e + z), 0>>
  ELSE <<s * (mag \div 2^z), e + z>>

f32_zero(s) == IF s < 0 THEN <<0, 0 - 1>> ELSE <<0, 0>>

f32_pack(s, mag, e) ==
  IF mag = 0 THEN f32_zero(s)
  ELSE IF e > 103 /\ (e > 127 \/ mag >= 2^(128 - e)) THEN <<s, 128>>
  ELSE IF e = 0 \/ (e < 0 /\ mag % 2 = 1) THEN <<s * mag, e>>
  ELSE f32_canonical(s, mag, e, f32_zeros(mag))

f32_half_even(m, sticky) ==
  IF m % 2 = 1 /\ (sticky \/ (m \div 2) % 2 = 1) THEN m \div 2 + 1
  ELSE m \div 2

f32_round_bit(s, m, e, sticky) ==
  f32_pack(s,
           IF m >= TwoTo24 \/ e = 0 - 150 \/ sticky
           THEN f32_half_even(m, sticky) ELSE m,
           IF m >= TwoTo24 \/ e = 0 - 150 \/ sticky THEN e + 1 ELSE e)

f32_round_shift(s, mag, e, sticky, sh) ==
  f32_round_bit(s, IF sh > 30 THEN 0 ELSE mag \div 2^sh, e + sh,
                sticky \/ sh > 30 \/ mag % 2^sh # 0)

f32_excess(mag) ==
  IF mag < 2 * TwoTo24 THEN 0
  ELSE IF mag < 4 * TwoTo24 THEN 1
  ELSE IF mag < 8 * TwoTo24 THEN 2
  ELSE IF mag < 16 * TwoTo24 THEN 3
  ELSE IF mag < 32 * TwoTo24 THEN 4
  ELSE IF mag < 64 * TwoTo24 THEN 5
  ELSE 6

f32_round(s, mag, e, sticky) ==
  IF mag = 0 THEN f32_zero(s)
  ELSE f32_round_shift(s, mag, e, sticky,
                       f32_max(f32_excess(mag), 0 - 150 - e))

f32(i) ==
  IF f32_abs(i) <= TwoTo24 THEN <<i, 0>>
  ELSE f32_round(f32_sign(i), f32_abs(i), 0, FALSE)

f32_nan == <<0, 128>>

f32_inf(s) == <<s, 128>>

f32_is_nan(x) == x = f32_nan

f32_is_inf(x) == x[2] = 128 /\ x[1] # 0

f32_is_zero(x) == x[1] = 0 /\ x[2] # 128

f32_is_positive(x) == x[1] > 0

f32_signbit(x) == x[1] < 0 \/ x = f32_zero(0 - 1)

f32_sgn(x) == IF f32_signbit(x) THEN 0 - 1 ELSE 1

f32_neg(x) ==
  IF f32_is_zero(x) THEN f32_zero(0 - f32_sgn(x)) ELSE <<0 - x[1], x[2]>>

(***************************************************************************)
(* f32: x * y.  The 48-bit product of the magnitudes is formed from 12-bit *)
(* limbs as hi * 2^24 + lo; its leading 25 to 30 bits are rounded, the     *)
(* rest is the sticky bit.                                                 *)
(***************************************************************************)
f32_mul_round(s, e, hi, lo, k) ==
  f32_round(s, hi * 2^k + lo \div 2^(24 - k), e + 24 - k,
            lo % 2^(24 - k) # 0)

f32_mul_wide(s, e, hi, lo) ==
  f32_mul_round(s, e, hi, lo,
                IF hi >= 262144 THEN 6
                ELSE IF hi >= 4096 THEN 12
                ELSE IF hi >= 64 THEN 18
                ELSE 24)

f32_mul_limbs(s, e, hh, mid, ll) ==
  f32_mul_wide(s, e,
               hh + mid \div 4096 + ((mid % 4096) * 4096 + ll) \div TwoTo24,
               ((mid % 4096) * 4096 + ll) % TwoTo24)

f32_mul_finite(s, e, a, b) ==
  f32_mul_limbs(s, e, (a \div 4096) * (b \div 4096),
                (a \div 4096) * (b % 4096) + (a % 4096) * (b \div 4096),
                (a % 4096) * (b % 4096))

f32_mul(x, y) ==
  IF x[2] = 0 /\ y[2] = 0 /\ x[1] # 0 /\ y[1] # 0
     /\ f32_abs(x[1]) <= 4096 /\ f32_abs(y[1]) <= 4096
  THEN <<x[1] * y[1], 0>>
  ELSE IF x[2] # 128 /\ y[2] # 128
       THEN (IF x[1] = 0 \/ y[1] = 0 THEN f32_zero(f32_sgn(x) * f32_sgn(y))
             ELSE IF x[1] = 1 /\ x[2] = 0 THEN y
             ELSE IF y[1] = 1 /\ y[2] = 0 THEN x
             ELSE f32_mul_finite(f32_sgn(x) * f32_sgn(y), x[2] + y[2],
                                 f32_abs(x[1]), f32_abs(y[1])))
  ELSE IF f32_is_nan(x) \/ f32_is_nan(y) \/ x[1] = 0 \/ y[1] = 0 THEN f32_nan
  ELSE f32_inf(f32_sgn(x) * f32_sgn(y))

(***************************************************************************)
(* f32: x + y.  The operand with the larger exponent is widened to at most *)
(* 29 bits; the bits of the other one that fall below it are kept as the   *)
(* sticky bit.                                                             *)
(***************************************************************************)
f32_add_signed(sum, e, sticky) ==
  f32_round(f32_sign(sum), f32_abs(sum), e, sticky)

f32_add_parts(big, small, e, low, sticky) ==
  f32_add_signed(big + f32_sign(small) * low
                   - (IF sticky /\ f32_sign(small) # f32_sign(big)
                      THEN f32_sign(big) ELSE 0),
                 e, sticky)

f32_add_aligned(big, small, e, d) ==
  f32_add_parts(big, small, e,
                IF d >= 25 THEN 0 ELSE f32_abs(small) \div 2^d,
                IF d >= 25 THEN small # 0 ELSE f32_abs(small) % 2^d # 0)

f32_add_widened(x, y, up) ==
  f32_add_aligned(x[1] * 2^up, y[1], x[2] - up, x[2] - up - y[2])

f32_add_ordered(x, y) ==
  f32_add_widened(x, y, f32_min(x[2] - y[2], 29 - f32_bits(f32_abs(x[1]))))

f32_add(x, y) ==
  IF x[2] = 0 /\ y[2] = 0 /\ f32_abs(x[1] + y[1]) <= TwoTo24
  THEN <<x[1] + y[1], 0>>
  ELSE IF x[2] # 128 /\ y[2] # 128
       THEN (IF x[1] = 0 /\ y[1] = 0 THEN (IF x = y THEN x ELSE f32_zero(1))
             ELSE IF x[1] = 0 THEN y
             ELSE IF y[1] = 0 THEN x
             ELSE f32_add_ordered(IF x[2] >= y[2] THEN x ELSE y,
                                  IF x[2] >= y[2] THEN y ELSE x))
  ELSE IF f32_is_nan(x) \/ f32_is_nan(y) THEN f32_nan
  ELSE IF f32_is_inf(x)
       THEN (IF f32_is_inf(y) /\ x[1] # y[1] THEN f32_nan ELSE x)
  ELSE y

f32_sub(x, y) == f32_add(x, f32_neg(y))

(***************************************************************************)
(* f32: x / y by long division, seven quotient bits at a time until the    *)
(* quotient holds at least 25 bits or the remainder is zero.               *)
(***************************************************************************)
RECURSIVE f32_div_loop(_, _, _, _, _)
f32_div_loop(s, q, rem, b, e) ==
  IF rem = 0 \/ q >= TwoTo24
  THEN f32_round(s, q, e, rem # 0)
  ELSE f32_div_loop(s, q * 128 + (rem * 128) \div b, (rem * 128) % b, b, e - 7)

f32_div_finite(s, a, b, e) == f32_div_loop(s, a \div b, a % b, b, e)

f32_div(x, y) ==
  IF f32_is_nan(x) \/ f32_is_nan(y) THEN f32_nan
  ELSE IF f32_is_inf(x)
       THEN (IF f32_is_inf(y) THEN f32_nan
             ELSE f32_inf(f32_sgn(x) * f32_sgn(y)))
  ELSE IF f32_is_inf(y) THEN f32_zero(f32_sgn(x) * f32_sgn(y))
  ELSE IF y[1] = 0
       THEN (IF x[1] = 0 THEN f32_nan
             ELSE f32_inf(f32_sgn(x) * f32_sgn(y)))
  ELSE f32_div_finite(f32_sgn(x) * f32_sgn(y), f32_abs(x[1]),
                      f32_abs(y[1]), x[2] - y[2])

x \oplus y == f32_add(x, y)

x \ominus y == f32_sub(x, y)

x \otimes y == f32_mul(x, y)

x \oslash y == f32_div(x, y)

(***************************************************************************)
(* sqrtf, digit by digit from the integer square root of the magnitude.    *)
(***************************************************************************)
RECURSIVE f32_isqrt(_, _, _)
f32_isqrt(n, lo, hi) ==
  IF lo = hi THEN lo
  ELSE IF ((lo + hi + 1) \div 2) * ((lo + hi + 1) \div 2) <= n
       THEN f32_isqrt(n, (lo + hi + 1) \div 2, hi)
  ELSE f32_isqrt(n, lo, (lo + hi + 1) \div 2 - 1)

RECURSIVE f32_sqrt_loop(_, _, _)
f32_sqrt_loop(root, rem, e) ==
  IF rem = 0 \/ root >= 2 * TwoTo24
  THEN f32_round(1, root, e, rem # 0)
  ELSE IF 4 * rem >= 4 * root + 1
       THEN f32_sqrt_loop(2 * root + 1, 4 * rem - 4 * root - 1, e - 1)
  ELSE f32_sqrt_loop(2 * root, 4 * rem, e - 1)

f32_sqrt_root(m, r, e) == f32_sqrt_loop(r, m - r * r, e)

f32_sqrt_even(m, e) == f32_sqrt_root(m, f32_isqrt(m, 0, 5792), e \div 2)

sqrtf(x) ==
  IF f32_is_nan(x) \/ x[1] < 0 THEN f32_nan
  ELSE IF f32_is_inf(x) \/ x[1] = 0 THEN x
  ELSE f32_sqrt_even(IF x[2] % 2 = 0 THEN x[1] ELSE 2 * x[1],
                     IF x[2] % 2 = 0 THEN x[2] ELSE x[2] - 1)

(***************************************************************************)
(* acosf, tanf, sinf and cosf of the C library, on the arguments the model *)
(* passes: 0, the halves of 15, 30, 45, 60, 90, 135, 180 and 225 degrees   *)
(* in radians, and 0.25, 0.5, 1 and 1.5.                                   *)
(***************************************************************************)
acosf(x) ==
  CASE x = <<0 - 1, 0>> -> <<13176795, 0 - 22>>
    [] x = <<1, 0>> -> <<0, 0>>

tanf(x) ==
  CASE x = <<0, 0>> -> <<0, 0>>
    [] x = <<0, 0 - 1>> -> <<0, 0 - 1>>
    [] x = <<4392265, 0 - 25>> -> <<4417525, 0 - 25>>
    [] x = <<4392265, 0 - 24>> -> <<8990883, 0 - 25>>
    [] x = <<13176795, 0 - 25>> -> <<13898701, 0 - 25>>
    [] x = <<4392265, 0 - 23>> -> <<9686331, 0 - 24>>
    [] x = <<13176795, 0 - 24>> -> <<1, 0>>
    [] x = <<2470649, 0 - 21>> -> <<5062973, 0 - 21>>
    [] x = <<13176795, 0 - 23>> -> <<0 - 11438667, 1>>
    [] x = <<16470993, 0 - 23>> -> <<0 - 10125947, 0 - 22>>
    [] x = <<1, 0 - 2>> -> <<8567853, 0 - 25>>
    [] x = <<1, 0 - 1>> -> <<9165435, 0 - 24>>
    [] x = <<1, 0>> -> <<13064483, 0 - 23>>
    [] x = <<3, 0 - 1>> -> <<14786411, 0 - 20>>

sinf(x) ==
  CASE x = <<0, 0>> -> <<0, 0>>
    [] x = <<0, 0 - 1>> -> <<0, 0 - 1>>
    [] x = <<4392265, 0 - 25>> -> <<8759465, 0 - 26>>
    [] x = <<4392265, 0 - 24>> -> <<4342263, 0 - 24>>
    [] x = <<13176795, 0 - 25>> -> <<6420363, 0 - 24>>
    [] x = <<4392265, 0 - 23>> -> <<1, 0 - 1>>
    [] x = <<13176795, 0 - 24>> -> <<11863283, 0 - 24>>
    [] x = <<2470649, 0 - 21>> -> <<7750063, 0 - 23>>
    [] x = <<13176795, 0 - 23>> -> <<1, 0>>
    [] x = <<16470993, 0 - 23>> -> <<15500127, 0 - 24>>
    [] x = <<1, 0 - 2>> -> <<16602999, 0 - 26>>
    [] x = <<1, 0 - 1>> -> <<4021713, 0 - 23>>
    [] x = <<1, 0>> -> <<3529385, 0 - 22>>
    [] x = <<3, 0 - 1>> -> <<16735189, 0 - 24>>

cosf(x) ==
  CASE x = <<0, 0>> -> <<1, 0>>
    [] x = <<0, 0 - 1>> -> <<1, 0>>
    [] x = <<4392265, 0 - 25>> -> <<16633685, 0 - 24>>
    [] x = <<4392265, 0 - 24>> -> <<8102773, 0 - 23>>
    [] x = <<13176795, 0 - 25>> -> <<7750063, 0 - 23>>
    [] x = <<4392265, 0 - 23>> -> <<14529495, 0 - 24>>
    [] x = <<13176795, 0 - 24>> -> <<11863283, 0 - 24>>
    [] x = <<2470649, 0 - 21>> -> <<12840725, 0 - 25>>
    [] x = <<13176795, 0 - 23>> -> <<0 - 6151831, 0 - 47>>
    [] x = <<16470993, 0 - 23>> -> <<0 - 3210181, 0 - 23>>
    [] x = <<1, 0 - 2>> -> <<16255653, 0 - 24>>
    [] x = <<1, 0 - 1>> -> <<230053, 0 - 18>>
    [] x = <<1, 0>> -> <<141637, 0 - 18>>
    [] x = <<3, 0 - 1>> -> <<4747093, 0 - 26>>

DEGREES_TO_RADIANS == acosf(f32(0 - 1)) \oslash f32(180)

radians(degrees) == degrees \otimes DEGREES_TO_RADIANS

(***************************************************************************)
(* vec2                                                                    *)
(***************************************************************************)
vec2(x, y) == [x |-> x, y |-> y]

vec2_dot(a, b) == a.x \otimes b.x \oplus a.y \otimes b.y

vec2_length_squared(a) == vec2_dot(a, a)

vec2_length(a) == sqrtf(vec2_length_squared(a))

vec2_normalize(a) ==
  LET l == vec2_length(a)
  IN  vec2(a.x \oslash l, a.y \oslash l)

vec2_plus(a, b) == vec2(a.x \oplus b.x, a.y \oplus b.y)

vec2_minus(a, b) ==
  vec2(a.x \ominus b.x, a.y \ominus b.y)

vec2_plus_assign_f32(a, s) ==
  vec2(a.x \oplus s, a.y \oplus s)

vec2_minus_assign_f32(a, s) ==
  vec2(a.x \ominus s, a.y \ominus s)

vec2_mul_assign_f32(a, s) ==
  vec2(a.x \otimes s, a.y \otimes s)

vec2_div_assign_f32(a, s) ==
  vec2(a.x \oslash s, a.y \oslash s)

vec2_plus_assign(a, b) == vec2_plus(a, b)

vec2_minus_assign(a, b) == vec2_minus(a, b)

(***************************************************************************)
(* vec3                                                                    *)
(***************************************************************************)
vec3(x, y, z) == [x |-> x, y |-> y, z |-> z]

vec3_dot(a, b) == a.x \otimes b.x \oplus a.y \otimes b.y \oplus a.z \otimes b.z

vec3_length_squared(a) == vec3_dot(a, a)

vec3_length(a) == sqrtf(vec3_length_squared(a))

vec3_normalize(a) ==
  LET l == vec3_length(a)
  IN  vec3(a.x \oslash l, a.y \oslash l, a.z \oslash l)

vec3_plus(a, b) == vec3(a.x \oplus b.x, a.y \oplus b.y, a.z \oplus b.z)

vec3_minus(a, b) ==
  vec3(a.x \ominus b.x, a.y \ominus b.y, a.y \ominus b.y)

vec3_plus_assign_f32(a, s) ==
  vec3(a.x \oplus s, a.y \oplus s, a.z \oplus s)

vec3_minus_assign_f32(a, s) ==
  vec3(a.x \ominus s, a.y \ominus s, a.z \ominus s)

vec3_mul_assign_f32(a, s) ==
  vec3(a.x \otimes s, a.y \otimes s, a.z \otimes s)

vec3_div_assign_f32(a, s) ==
  vec3(a.x \oslash s, a.y \oslash s, a.z \oslash s)

vec3_plus_assign(a, b) == vec3_plus(a, b)

vec3_minus_assign(a, b) == vec3_minus(a, b)

(***************************************************************************)
(* vec4                                                                    *)
(***************************************************************************)
vec4(x, y, z, w) == [x |-> x, y |-> y, z |-> z, w |-> w]

vec4_from_vec3(v, w) == vec4(v.x, v.y, v.z, w)

vec4_dot(a, b) == a.x \otimes b.x \oplus a.y \otimes b.y \oplus a.z \otimes b.z \oplus a.w \otimes b.w

vec4_length_squared(a) == vec4_dot(a, a)

vec4_length(a) == sqrtf(vec4_length_squared(a))

vec4_normalize(a) ==
  LET l == vec4_length(a)
  IN  vec4(a.x \oslash l, a.y \oslash l, a.z \oslash l, a.w \oslash l)

vec4_plus(a, b) == vec4(a.x \oplus b.x, a.y \oplus b.y, a.z \oplus b.z, a.w \oplus b.w)

vec4_minus(a, b) ==
  vec4(a.x \ominus b.x, a.y \ominus b.y, a.y \ominus b.y, a.w \ominus b.w)

vec4_plus_assign_f32(a, s) ==
  vec4(a.x \oplus s, a.y \oplus s, a.z \oplus s, a.w \oplus s)

vec4_minus_assign_f32(a, s) ==
  vec4(a.x \ominus s, a.y \ominus s, a.z \ominus s, a.w \ominus s)

vec4_mul_assign_f32(a, s) ==
  vec4(a.x \otimes s, a.y \otimes s, a.z \otimes s, a.w \otimes s)

vec4_div_assign_f32(a, s) ==
  vec4(a.x \oslash s, a.y \oslash s, a.z \oslash s, a.w \oslash s)

vec4_plus_assign(a, b) == vec4_plus(a, b)

vec4_minus_assign(a, b) == vec4_minus(a, b)

(***************************************************************************)
(* quat                                                                    *)
(***************************************************************************)
quat(x, y, z, w) == [x |-> x, y |-> y, z |-> z, w |-> w]

quat_axis_angle(axis, angle) ==
  quat(axis.x \otimes sinf(angle \oslash f32(2)),
       axis.y \otimes sinf(angle \oslash f32(2)),
       axis.z \otimes sinf(angle \oslash f32(2)),
       cosf(angle \oslash f32(2)))

(***************************************************************************)
(* mat4.  Field mCR is column C, row R; the fields are declared, and laid  *)
(* out in memory, column after column.                                     *)
(***************************************************************************)
mat4_fields ==
  [m00 |-> f32(0), m01 |-> f32(0), m02 |-> f32(0), m03 |-> f32(0),
   m10 |-> f32(0), m11 |-> f32(0), m12 |-> f32(0), m13 |-> f32(0),
   m20 |-> f32(0), m21 |-> f32(0), m22 |-> f32(0), m23 |-> f32(0),
   m30 |-> f32(0), m31 |-> f32(0), m32 |-> f32(0), m33 |-> f32(0)]

mat4_no_m33(s) == [mat4_fields EXCEPT !.m00 = s, !.m11 = s, !.m22 = s]

mat4(s) == [mat4_fields EXCEPT !.m00 = s, !.m11 = s, !.m22 = s, !.m33 = s]

mat4_quat_no_m33(q) ==
  LET x == q.x  y == q.y  z == q.z  w == q.w
      xx == x \otimes x  xy == x \otimes y  xz == x \otimes z  xw == x \otimes w
      yy == y \otimes y  yz == y \otimes z  yw == y \otimes w
      zz == z \otimes z  zw == z \otimes w
  IN  [mat4_fields EXCEPT
         !.m00 = f32(1) \ominus f32(2) \otimes (yy \oplus zz),
         !.m10 = f32(2) \otimes (xy \ominus zw),
         !.m20 = f32(2) \otimes (xz \oplus yw),
         !.m01 = f32(2) \otimes (xy \oplus zw),
         !.m11 = f32(1) \ominus f32(2) \otimes (xx \oplus zz),
         !.m21 = f32(2) \otimes (yz \ominus xw),
         !.m02 = f32(2) \otimes (xz \ominus yw),
         !.m12 = f32(2) \otimes (yz \oplus xw),
         !.m22 = f32(1) \ominus f32(2) \otimes (xx \oplus yy),
         !.m30 = f32(0), !.m31 = f32(0), !.m32 = f32(0),
         !.m03 = f32(0), !.m13 = f32(0), !.m23 = f32(0)]

mat4_quat(q) ==
  LET x == q.x  y == q.y  z == q.z  w == q.w
      xx == x \otimes x  xy == x \otimes y  xz == x \otimes z  xw == x \otimes w
      yy == y \otimes y  yz == y \otimes z  yw == y \otimes w
      zz == z \otimes z  zw == z \otimes w
  IN  [mat4_fields EXCEPT
         !.m00 = f32(1) \ominus f32(2) \otimes (yy \oplus zz),
         !.m10 = f32(2) \otimes (xy \ominus zw),
         !.m20 = f32(2) \otimes (xz \oplus yw),
         !.m01 = f32(2) \otimes (xy \oplus zw),
         !.m11 = f32(1) \ominus f32(2) \otimes (xx \oplus zz),
         !.m21 = f32(2) \otimes (yz \ominus xw),
         !.m02 = f32(2) \otimes (xz \ominus yw),
         !.m12 = f32(2) \otimes (yz \oplus xw),
         !.m22 = f32(1) \ominus f32(2) \otimes (xx \oplus yy),
         !.m30 = f32(0), !.m31 = f32(0), !.m32 = f32(0),
         !.m03 = f32(0), !.m13 = f32(0), !.m23 = f32(0),
         !.m33 = f32(1)]

data(m) ==
  <<m.m00, m.m01, m.m02, m.m03,
    m.m10, m.m11, m.m12, m.m13,
    m.m20, m.m21, m.m22, m.m23,
    m.m30, m.m31, m.m32, m.m33>>

mat4_of_data(d) ==
  [m00 |-> d[1],  m01 |-> d[2],  m02 |-> d[3],  m03 |-> d[4],
   m10 |-> d[5],  m11 |-> d[6],  m12 |-> d[7],  m13 |-> d[8],
   m20 |-> d[9],  m21 |-> d[10], m22 |-> d[11], m23 |-> d[12],
   m30 |-> d[13], m31 |-> d[14], m32 |-> d[15], m33 |-> d[16]]

mat4_mul_transposed(a, b) ==
  [m00 |-> a.m00 \otimes b.m00 \oplus a.m01 \otimes b.m10
             \oplus a.m02 \otimes b.m20 \oplus a.m03 \otimes b.m30,
   m01 |-> a.m00 \otimes b.m01 \oplus a.m01 \otimes b.m11
             \oplus a.m02 \otimes b.m21 \oplus a.m03 \otimes b.m31,
   m02 |-> a.m00 \otimes b.m02 \oplus a.m01 \otimes b.m12
             \oplus a.m02 \otimes b.m22 \oplus a.m03 \otimes b.m32,
   m03 |-> a.m00 \otimes b.m03 \oplus a.m01 \otimes b.m13
             \oplus a.m02 \otimes b.m23 \oplus a.m03 \otimes b.m33,
   m10 |-> a.m10 \otimes b.m00 \oplus a.m11 \otimes b.m10
             \oplus a.m12 \otimes b.m20 \oplus a.m13 \otimes b.m30,
   m11 |-> a.m10 \otimes b.m01 \oplus a.m11 \otimes b.m11
             \oplus a.m12 \otimes b.m21 \oplus a.m13 \otimes b.m31,
   m12 |-> a.m10 \otimes b.m02 \oplus a.m11 \otimes b.m12
             \oplus a.m12 \otimes b.m22 \oplus a.m13 \otimes b.m32,
   m13 |-> a.m10 \otimes b.m03 \oplus a.m11 \otimes b.m13
             \oplus a.m12 \otimes b.m23 \oplus a.m13 \otimes b.m33,
   m20 |-> a.m20 \otimes b.m00 \oplus a.m21 \otimes b.m10
             \oplus a.m22 \otimes b.m20 \oplus a.m23 \otimes b.m30,
   m21 |-> a.m20 \otimes b.m01 \oplus a.m21 \otimes b.m11
             \oplus a.m22 \otimes b.m21 \oplus a.m23 \otimes b.m31,
   m22 |-> a.m20 \otimes b.m02 \oplus a.m21 \otimes b.m12
             \oplus a.m22 \otimes b.m22 \oplus a.m23 \otimes b.m32,
   m23 |-> a.m20 \otimes b.m03 \oplus a.m21 \otimes b.m13
             \oplus a.m22 \otimes b.m23 \oplus a.m23 \otimes b.m33,
   m30 |-> a.m30 \otimes b.m00 \oplus a.m31 \otimes b.m10
             \oplus a.m32 \otimes b.m20 \oplus a.m33 \otimes b.m30,
   m31 |-> a.m30 \otimes b.m01 \oplus a.m31 \otimes b.m11
             \oplus a.m32 \otimes b.m21 \oplus a.m33 \otimes b.m31,
   m32 |-> a.m30 \otimes b.m02 \oplus a.m31 \otimes b.m12
             \oplus a.m32 \otimes b.m22 \oplus a.m33 \otimes b.m32,
   m33 |-> a.m30 \otimes b.m03 \oplus a.m31 \otimes b.m13
             \oplus a.m32 \otimes b.m23 \oplus a.m33 \otimes b.m33]

mat4_mul(a, b) ==
  [m00 |-> a.m00 \otimes b.m00 \oplus a.m10 \otimes b.m01
             \oplus a.m20 \otimes b.m02 \oplus a.m30 \otimes b.m03,
   m01 |-> a.m01 \otimes b.m00 \oplus a.m11 \otimes b.m01
             \oplus a.m21 \otimes b.m02 \oplus a.m31 \otimes b.m03,
   m02 |-> a.m02 \otimes b.m00 \oplus a.m12 \otimes b.m01
             \oplus a.m22 \otimes b.m02 \oplus a.m32 \otimes b.m03,
   m03 |-> a.m03 \otimes b.m00 \oplus a.m13 \otimes b.m01
             \oplus a.m23 \otimes b.m02 \oplus a.m33 \otimes b.m03,
   m10 |-> a.m00 \otimes b.m10 \oplus a.m10 \otimes b.m11
             \oplus a.m20 \otimes b.m12 \oplus a.m30 \otimes b.m13,
   m11 |-> a.m01 \otimes b.m10 \oplus a.m11 \otimes b.m11
             \oplus a.m21 \otimes b.m12 \oplus a.m31 \otimes b.m13,
   m12 |-> a.m02 \otimes b.m10 \oplus a.m12 \otimes b.m11
             \oplus a.m22 \otimes b.m12 \oplus a.m32 \otimes b.m13,
   m13 |-> a.m03 \otimes b.m10 \oplus a.m13 \otimes b.m11
             \oplus a.m23 \otimes b.m12 \oplus a.m33 \otimes b.m13,
   m20 |-> a.m00 \otimes b.m20 \oplus a.m10 \otimes b.m21
             \oplus a.m20 \otimes b.m22 \oplus a.m30 \otimes b.m23,
   m21 |-> a.m01 \otimes b.m20 \oplus a.m11 \otimes b.m21
             \oplus a.m21 \otimes b.m22 \oplus a.m31 \otimes b.m23,
   m22 |-> a.m02 \otimes b.m20 \oplus a.m12 \otimes b.m21
             \oplus a.m22 \otimes b.m22 \oplus a.m32 \otimes b.m23,
   m23 |-> a.m03 \otimes b.m20 \oplus a.m13 \otimes b.m21
             \oplus a.m23 \otimes b.m22 \oplus a.m33 \otimes b.m23,
   m30 |-> a.m00 \otimes b.m30 \oplus a.m10 \otimes b.m31
             \oplus a.m20 \otimes b.m32 \oplus a.m30 \otimes b.m33,
   m31 |-> a.m01 \otimes b.m30 \oplus a.m11 \otimes b.m31
             \oplus a.m21 \otimes b.m32 \oplus a.m31 \otimes b.m33,
   m32 |-> a.m02 \otimes b.m30 \oplus a.m12 \otimes b.m31
             \oplus a.m22 \otimes b.m32 \oplus a.m32 \otimes b.m33,
   m33 |-> a.m03 \otimes b.m30 \oplus a.m13 \otimes b.m31
             \oplus a.m23 \otimes b.m32 \oplus a.m33 \otimes b.m33]

mat4_mul_vec4_slip(m, b) ==
  vec4(m.m00 \otimes b.x \oplus m.m10 \otimes b.y
         \oplus m.m20 \otimes b.z \oplus m.m30 \otimes b.w,
       m.m01 \otimes b.x \oplus m.m11 \otimes b.y
         \oplus m.m21 \otimes b.y \oplus m.m31 \otimes b.y,
       m.m02 \otimes b.x \oplus m.m12 \otimes b.y
         \oplus m.m22 \otimes b.z \oplus m.m32 \otimes b.w,
       m.m03 \otimes b.x \oplus m.m13 \otimes b.y
         \oplus m.m23 \otimes b.z \oplus m.m33 \otimes b.w)

mat4_mul_vec4(m, b) ==
  vec4(m.m00 \otimes b.x \oplus m.m10 \otimes b.y
         \oplus m.m20 \otimes b.z \oplus m.m30 \otimes b.w,
       m.m01 \otimes b.x \oplus m.m11 \otimes b.y
         \oplus m.m21 \otimes b.y \oplus m.m31 \otimes b.w,
       m.m02 \otimes b.x \oplus m.m12 \otimes b.y
         \oplus m.m22 \otimes b.z \oplus m.m32 \otimes b.w,
       m.m03 \otimes b.x \oplus m.m13 \otimes b.y
         \oplus m.m23 \otimes b.z \oplus m.m33 \otimes b.w)

mat4_mul_assign(a, b) == mat4_mul(a, b)

translate_row_major(m, xyz) ==
  LET t == [mat4(f32(1)) EXCEPT !.m03 = xyz.x, !.m13 = xyz.y, !.m23 = xyz.z]
  IN  mat4_mul(m, t)

translate_left(m, xyz) ==
  LET t == [mat4(f32(1)) EXCEPT !.m30 = xyz.x, !.m31 = xyz.y, !.m32 = xyz.z]
  IN  mat4_mul(t, m)

translate(m, xyz) ==
  LET t == [mat4(f32(1)) EXCEPT !.m30 = xyz.x, !.m31 = xyz.y, !.m32 = xyz.z]
  IN  mat4_mul(m, t)

translated_fresh(m, xyz) == LET r == mat4(f32(1)) IN translate(r, xyz)

translated(m, xyz) == LET r == m IN translate(r, xyz)

scale(m, s) ==
  LET t == [mat4(f32(1)) EXCEPT !.m00 = s.x, !.m11 = s.y, !.m22 = s.z]
  IN  mat4_mul(m, t)

scaled(m, s) == LET r == m IN scale(r, s)

rotate_axis_angle(m, axis, angle) ==
  LET t == mat4_quat(quat_axis_angle(axis, angle))
  IN  mat4_mul(m, t)

rotated_axis_angle(m, axis, angle) ==
  LET r == m IN rotate_axis_angle(r, axis, angle)

rotate(m, q) == mat4_mul(m, mat4_quat(q))

rotated(m, q) == LET r == m IN rotate(r, q)

perspective_keeps_m33(fovy, ar, n, f) ==
  LET result == mat4(f32(1))
      ht == tanf(fovy \oslash f32(2))
      t == n \otimes ht
      r == t \otimes ar
  IN  [result EXCEPT
         !.m00 = n \oslash r,
         !.m11 = n \oslash t,
         !.m22 = f32_neg(f \oplus n) \oslash (f \ominus n),
         !.m23 = f32(0 - 1),
         !.m32 = f32_neg(f32(2) \otimes n \otimes f) \oslash (f \ominus n)]

perspective(fovy, ar, n, f) ==
  LET result == mat4(f32(1))
      ht == tanf(fovy \oslash f32(2))
      t == n \otimes ht
      r == t \otimes ar
  IN  [result EXCEPT
         !.m00 = n \oslash r,
         !.m11 = n \oslash t,
         !.m22 = f32_neg(f \oplus n) \oslash (f \ominus n),
         !.m23 = f32(0 - 1),
         !.m32 = f32_neg(f32(2) \otimes n \otimes f) \oslash (f \ominus n),
         !.m33 = f32(0)]
(***************************************************************************)
(* Values the callers pass.  An argument passed by reference may be the    *)
(* receiver itself (a += a, m *= m): SelfArg.  Such an argument changes    *)
(* whenever the receiver does.                                             *)
(***************************************************************************)
Arg(type, val) == [type |-> type, val |-> val, alias |-> FALSE]

SelfArg(type, val) == [type |-> type, val |-> val, alias |-> TRUE]

Aliased(a, receiver) == IF a.alias THEN [a EXCEPT !.val = receiver] ELSE a

NoArg == Arg("none", f32(0))

Call(o, a) == [op |-> o, arg |-> a]

Scalars ==
  {f32(i) : i \in (0 - MaxScalar)..MaxScalar} \cup {f32_neg(f32(0))}

SmallScalars == {f32(i) : i \in 0..MaxScalar}

Dense(p) ==
  mat4_of_data([i \in 1..16 |-> f32(((p * i * i + 3 * i + p) % 7) - 3)])

AxisAngleArgs ==
  {[axis |-> vec3(f32(k - 1), f32(0), f32(1)),
    angle |-> radians(f32(90 \div k))] : k \in 1..MaxArg}

MatInputs ==
  {mat4(f32(s)) : s \in 1..MaxDiag} \cup {Dense(p) : p \in 1..MaxDense}
    \cup {mat4_quat(quat_axis_angle(a.axis, a.angle)) : a \in AxisAngleArgs}

Vec2Inputs == {vec2(x, y) : x \in SmallScalars, y \in SmallScalars}

Vec3Inputs ==
  {vec3(x, y, z) : x \in SmallScalars, y \in SmallScalars, z \in SmallScalars}

Vec4Inputs ==
  {vec4(x, y, z, w) : x \in SmallScalars, y \in SmallScalars,
                      z \in SmallScalars, w \in SmallScalars}

Vec4Operands ==
  {vec4(x, y, z, w) : x \in Scalars, y \in Scalars, z \in Scalars, w \in Scalars}

QuatOperands ==
  {quat(x, y, z, w) : x \in Scalars, y \in Scalars, z \in Scalars, w \in Scalars}

PerspectiveOperands ==
  {[fovy |-> radians(f32(45 * k)), ar |-> f32(a), n |-> f32(n), f |-> f32(f)] :
     k \in 1..(MaxPersp + 2), a \in 0..MaxPersp, n \in 1..MaxPersp,
     f \in 1..(MaxPersp + 1)}

Vec3Args == {vec3(f32(3 - 2 * k), f32(4 - 2 * k), f32(k + 2)) : k \in 1..MaxArg}

QuatArgs ==
  {quat(f32(k - 1), f32(k - 1), f32(2 - k), f32(k - 1)) : k \in 1..MaxArg}

PointArgs ==
  {vec4(f32(0), f32(0), f32(0), f32(1))}
    \cup {vec4_from_vec3(v, f32(1)) : v \in Vec3Args}

(***************************************************************************)
(* Vector arithmetic on a receiver `self` and an argument `arg` drawn at   *)
(* the start: a vector of the same type (possibly the receiver itself) for *)
(* a + b, a - b, a += b, a -= b, or a scalar for a += s, a -= s, a *= s,   *)
(* a /= s.  length() and normalize() take no argument.                     *)
(***************************************************************************)
VecTypes == {"vec2", "vec3", "vec4"}

VecType(v) ==
  IF "w" \in DOMAIN v THEN "vec4" ELSE IF "z" \in DOMAIN v THEN "vec3" ELSE "vec2"

VecArgs(type, inputs) ==
  {Arg(type, v) : v \in inputs} \cup {SelfArg(type, self)}
    \cup {Arg("f32", s) : s \in Scalars}

InitVec ==
  /\ \/ self \in Vec2Inputs /\ arg \in VecArgs("vec2", Vec2Inputs)
     \/ self \in Vec3Inputs /\ arg \in VecArgs("vec3", Vec3Inputs)
     \/ self \in Vec4Inputs /\ arg \in VecArgs("vec4", Vec4Inputs)
  /\ ret = self
  /\ hist = <<>>
  /\ op = "init"

OperatorPlus ==
  /\ arg.type \in VecTypes
  /\ ret' = CASE arg.type = "vec2" -> vec2_plus(self, arg.val)
              [] arg.type = "vec3" -> vec3_plus(self, arg.val)
              [] arg.type = "vec4" -> vec4_plus(self, arg.val)
  /\ op' = "+"
  /\ UNCHANGED <<self, arg, hist>>

OperatorMinus ==
  /\ arg.type \in VecTypes
  /\ ret' = CASE arg.type = "vec2" -> vec2_minus(self, arg.val)
              [] arg.type = "vec3" -> vec3_minus(self, arg.val)
              [] arg.type = "vec4" -> vec4_minus(self, arg.val)
  /\ op' = "-"
  /\ UNCHANGED <<self, arg, hist>>

OperatorPlusAssign ==
  /\ arg.type \in VecTypes
  /\ Len(hist) < MaxOps
  /\ self' = CASE arg.type = "vec2" -> vec2_plus_assign(self, arg.val)
               [] arg.type = "vec3" -> vec3_plus_assign(self, arg.val)
               [] arg.type = "vec4" -> vec4_plus_assign(self, arg.val)
  /\ ret' = self'
  /\ arg' = Aliased(arg, self')
  /\ hist' = Append(hist, Call("+=", arg.val))
  /\ op' = "+="

OperatorMinusAssign ==
  /\ arg.type \in VecTypes
  /\ Len(hist) < MaxOps
  /\ self' = CASE arg.type = "vec2" -> vec2_minus_assign(self, arg.val)
               [] arg.type = "vec3" -> vec3_minus_assign(self, arg.val)
               [] arg.type = "vec4" -> vec4_minus_assign(self, arg.val)
  /\ ret' = self'
  /\ arg' = Aliased(arg, self')
  /\ hist' = Append(hist, Call("-=", arg.val))
  /\ op' = "-="

OperatorPlusAssignScalar ==
  /\ arg.type = "f32"
  /\ Len(hist) < MaxOps
  /\ self' = CASE VecType(self) = "vec2" -> vec2_plus_assign_f32(self, arg.val)
               [] VecType(self) = "vec3" -> vec3_plus_assign_f32(self, arg.val)
               [] VecType(self) = "vec4" -> vec4_plus_assign_f32(self, arg.val)
  /\ ret' = self'
  /\ hist' = Append(hist, Call("+=(f32)", arg.val))
  /\ op' = "+=(f32)"
  /\ UNCHANGED arg

OperatorMinusAssignScalar ==
  /\ arg.type = "f32"
  /\ Len(hist) < MaxOps
  /\ self' = CASE VecType(self) = "vec2" -> vec2_minus_assign_f32(self, arg.val)
               [] VecType(self) = "vec3" -> vec3_minus_assign_f32(self, arg.val)
               [] VecType(self) = "vec4" -> vec4_minus_assign_f32(self, arg.val)
  /\ ret' = self'
  /\ hist' = Append(hist, Call("-=(f32)", arg.val))
  /\ op' = "-=(f32)"
  /\ UNCHANGED arg

OperatorMulAssignScalar ==
  /\ arg.type = "f32"
  /\ Len(hist) < MaxOps
  /\ self' = CASE VecType(self) = "vec2" -> vec2_mul_assign_f32(self, arg.val)
               [] VecType(self) = "vec3" -> vec3_mul_assign_f32(self, arg.val)
               [] VecType(self) = "vec4" -> vec4_mul_assign_f32(self, arg.val)
  /\ ret' = self'
  /\ hist' = Append(hist, Call("*=(f32)", arg.val))
  /\ op' = "*=(f32)"
  /\ UNCHANGED arg

OperatorDivAssignScalar ==
  /\ arg.type = "f32"
  /\ Len(hist) < MaxOps
  /\ self' = CASE VecType(self) = "vec2" -> vec2_div_assign_f32(self, arg.val)
               [] VecType(self) = "vec3" -> vec3_div_assign_f32(self, arg.val)
               [] VecType(self) = "vec4" -> vec4_div_assign_f32(self, arg.val)
  /\ ret' = self'
  /\ hist' = Append(hist, Call("/=(f32)", arg.val))
  /\ op' = "/=(f32)"
  /\ UNCHANGED arg

Length ==
  /\ ret' = CASE VecType(self) = "vec2" -> vec2_length(self)
              [] VecType(self) = "vec3" -> vec3_length(self)
              [] VecType(self) = "vec4" -> vec4_length(self)
  /\ op' = "length"
  /\ UNCHANGED <<self, arg, hist>>

Normalize ==
  /\ Len(hist) < MaxOps
  /\ self' = CASE VecType(self) = "vec2" -> vec2_normalize(self)
               [] VecType(self) = "vec3" -> vec3_normalize(self)
               [] VecType(self) = "vec4" -> vec4_normalize(self)
  /\ ret' = self'
  /\ arg' = Aliased(arg, self')
  /\ hist' = Append(hist, Call("normalize", f32(0)))
  /\ op' = "normalize"

NextVec ==
  \/ OperatorPlus
  \/ OperatorMinus
  \/ OperatorPlusAssign
  \/ OperatorMinusAssign
  \/ OperatorPlusAssignScalar
  \/ OperatorMinusAssignScalar
  \/ OperatorMulAssignScalar
  \/ OperatorDivAssignScalar
  \/ Length
  \/ Normalize

SpecVec == InitVec /\ [][NextVec]_vars

(***************************************************************************)
(* The matrix operations that take their operands and return a value,     *)
(* applied to operands drawn at the start: M * B, M * v, mat4(q),          *)
(* mat4::perspective(fovy, ar, n, f); and M *= B, where B may be M itself. *)
(***************************************************************************)
InitOps ==
  /\ self \in MatInputs
  /\ arg \in {Arg("mat4", b) : b \in MatInputs}
         \cup {SelfArg("mat4", self)}
         \cup {Arg("vec4", v) : v \in Vec4Operands}
         \cup {Arg("quat", q) : q \in QuatOperands}
         \cup {Arg("perspective", a) : a \in PerspectiveOperands}
  /\ ret = self
  /\ hist = <<>>
  /\ op = "init"

OperatorMul ==
  /\ arg.type = "mat4"
  /\ ret' = mat4_mul(self, arg.val)
  /\ op' = "mat*mat"
  /\ UNCHANGED <<self, arg, hist>>

OperatorMulAssign ==
  /\ arg.type = "mat4"
  /\ Len(hist) < MaxOps
  /\ self' = mat4_mul_assign(self, arg.val)
  /\ ret' = self'
  /\ arg' = Aliased(arg, self')
  /\ hist' = Append(hist, Call("mat*=mat", arg.val))
  /\ op' = "mat*=mat"

OperatorMulVec ==
  /\ arg.type = "vec4"
  /\ ret' = mat4_mul_vec4(self, arg.val)
  /\ op' = "mat*vec"
  /\ UNCHANGED <<self, arg, hist>>

ConstructFromQuat ==
  /\ arg.type = "quat"
  /\ ret' = mat4_quat(arg.val)
  /\ op' = "mat4(quat)"
  /\ UNCHANGED <<self, arg, hist>>

Perspective ==
  /\ arg.type = "perspective"
  /\ ret' = perspective(arg.val.fovy, arg.val.ar, arg.val.n, arg.val.f)
  /\ op' = "perspective"
  /\ UNCHANGED <<self, arg, hist>>

NextOps ==
  \/ OperatorMul
  \/ OperatorMulAssign
  \/ OperatorMulVec
  \/ ConstructFromQuat
  \/ Perspective

SpecOps == InitOps /\ [][NextOps]_vars

(***************************************************************************)
(* The transforms of a matrix `self`.  The mutating forms change the       *)
(* receiver and return a reference to it; the non-mutating forms return    *)
(* the transformed copy.  The argument is a const reference to a vec3 or   *)
(* a quat (or an axis and an angle), which cannot be the receiver.  hist   *)
(* is the constructor call followed by the mutating calls.                 *)
(***************************************************************************)
AxisAngle(axis, angle) == [axis |-> axis, angle |-> angle]

Translate(xyz) ==
  /\ Len(hist) <= MaxOps
  /\ self' = translate(self, xyz)
  /\ ret' = self'
  /\ arg' = Arg("vec3", xyz)
  /\ hist' = Append(hist, Call("translate", xyz))
  /\ op' = "translate"

Translated(xyz) ==
  /\ ret' = translated(self, xyz)
  /\ arg' = Arg("vec3", xyz)
  /\ op' = "translated"
  /\ UNCHANGED <<self, hist>>

Scale(xyz) ==
  /\ Len(hist) <= MaxOps
  /\ self' = scale(self, xyz)
  /\ ret' = self'
  /\ arg' = Arg("vec3", xyz)
  /\ hist' = Append(hist, Call("scale", xyz))
  /\ op' = "scale"

Scaled(xyz) ==
  /\ ret' = scaled(self, xyz)
  /\ arg' = Arg("vec3", xyz)
  /\ op' = "scaled"
  /\ UNCHANGED <<self, hist>>

RotateAxisAngle(axis, angle) ==
  /\ Len(hist) <= MaxOps
  /\ self' = rotate_axis_angle(self, axis, angle)
  /\ ret' = self'
  /\ arg' = Arg("axis,angle", AxisAngle(axis, angle))
  /\ hist' = Append(hist, Call("rotate(axis,angle)", AxisAngle(axis, angle)))
  /\ op' = "rotate(axis,angle)"

RotatedAxisAngle(axis, angle) ==
  /\ ret' = rotated_axis_angle(self, axis, angle)
  /\ arg' = Arg("axis,angle", AxisAngle(axis, angle))
  /\ op' = "rotated(axis,angle)"
  /\ UNCHANGED <<self, hist>>

Rotate(q) ==
  /\ Len(hist) <= MaxOps
  /\ self' = rotate(self, q)
  /\ ret' = self'
  /\ arg' = Arg("quat", q)
  /\ hist' = Append(hist, Call("rotate", q))
  /\ op' = "rotate"

Rotated(q) ==
  /\ ret' = rotated(self, q)
  /\ arg' = Arg("quat", q)
  /\ op' = "rotated"
  /\ UNCHANGED <<self, hist>>

Transform(b) ==
  /\ ret' = mat4_mul_vec4(self, b)
  /\ arg' = Arg("vec4", b)
  /\ op' = "mat*vec"
  /\ UNCHANGED <<self, hist>>

(***************************************************************************)
(* The two forms of each transform, called on a receiver with an argument  *)
(* drawn at the start.                                                     *)
(***************************************************************************)
InitForms ==
  /\ self \in MatInputs
  /\ arg \in {Arg("vec3", v) : v \in Vec3Args}
         \cup {Arg("axis,angle", a) : a \in AxisAngleArgs}
         \cup {Arg("quat", q) : q \in QuatArgs}
  /\ ret = self
  /\ hist = <<>>
  /\ op = "init"

NextForms ==
  \/ arg.type = "vec3" /\ Translate(arg.val)
  \/ arg.type = "vec3" /\ Translated(arg.val)
  \/ arg.type = "vec3" /\ Scale(arg.val)
  \/ arg.type = "vec3" /\ Scaled(arg.val)
  \/ arg.type = "axis,angle" /\ RotateAxisAngle(arg.val.axis, arg.val.angle)
  \/ arg.type = "axis,angle" /\ RotatedAxisAngle(arg.val.axis, arg.val.angle)
  \/ arg.type = "quat" /\ Rotate(arg.val)
  \/ arg.type = "quat" /\ Rotated(arg.val)

SpecForms == InitForms /\ [][NextForms]_vars

(***************************************************************************)
(* Transform sequences: a matrix is constructed (mat4(s), or its fields    *)
(* are written through data()), then translate / scale / rotate are        *)
(* called on it in any order, with any of the arguments, and M * v in      *)
(* between.                                                                *)
(***************************************************************************)
Init ==
  /\ \/ \E s \in 1..MaxDiag :
          self = mat4(f32(s)) /\ hist = <<Call("mat4", f32(s))>>
     \/ \E p \in 1..MaxDense :
          self = Dense(p) /\ hist = <<Call("data", f32(p))>>
  /\ arg = NoArg
  /\ ret = self
  /\ op = "init"

Next ==
  \/ \E t \in Vec3Args : Translate(t)
  \/ \E s \in Vec3Args : Scale(s)
  \/ \E a \in AxisAngleArgs : RotateAxisAngle(a.axis, a.angle)
  \/ \E q \in QuatArgs : Rotate(q)
  \/ \E v \in PointArgs : Transform(v)

Spec == Init /\ [][Next]_vars
(***************************************************************************)
(* Reference formulas the claims are stated with.                          *)
(***************************************************************************)
Elem(m, c, r) == data(m)[4 * c + r + 1]

MatProduct(a, b) ==
  mat4_of_data([i \in 1..16 |->
    LET c == (i - 1) \div 4
        r == (i - 1) % 4
    IN  Elem(a, 0, r) \otimes Elem(b, c, 0) \oplus Elem(a, 1, r) \otimes Elem(b, c, 1)
          \oplus Elem(a, 2, r) \otimes Elem(b, c, 2)
          \oplus Elem(a, 3, r) \otimes Elem(b, c, 3)])

Difference(a, b) == [k \in DOMAIN a |-> a[k] \ominus b[k]]

TranslationMatrix(t) ==
  mat4_of_data(<<f32(1), f32(0), f32(0), f32(0),
                 f32(0), f32(1), f32(0), f32(0),
                 f32(0), f32(0), f32(1), f32(0),
                 t.x, t.y, t.z, f32(1)>>)

ColumnMatrix(v) ==
  mat4_of_data(<<v.x, v.y, v.z, v.w,
                 f32(0), f32(0), f32(0), f32(0),
                 f32(0), f32(0), f32(0), f32(0),
                 f32(0), f32(0), f32(0), f32(0)>>)

(***************************************************************************)
(* C1.  a - b is componentwise for vec2, vec3 and vec4: every component    *)
(* of the result is the difference of the corresponding components of a    *)
(* and b, and a -= b leaves a equal to that result.                        *)
(* Violated by the code: vec3 and vec4 compute z as y - b.y.               *)
(***************************************************************************)
C1_SubtractionComponentwise ==
  [][/\ op' = "-" => ret' = Difference(self, arg.val)
     /\ op' = "-=" => self' = Difference(self, arg.val)]_vars

(***************************************************************************)
(* C2.  Component r of M * v is the sum over k of M(column k, row r) * v_k,*)
(* that is, M * v is column 0 of M * B for B a matrix whose column 0 is v. *)
(* Violated by the code: the y component multiplies m21 by b.y.            *)
(***************************************************************************)
C2_MatVecIsColumnOfMatMat ==
  op = "mat*vec" =>
    LET P == mat4_mul(self, ColumnMatrix(arg.val))
    IN  /\ ret = vec4(P.m00, P.m01, P.m02, P.m03)
        /\ \A r \in 0..3 :
             <<ret.x, ret.y, ret.z, ret.w>>[r + 1] =
               Elem(self, 0, r) \otimes arg.val.x
                 \oplus Elem(self, 1, r) \otimes arg.val.y
                 \oplus Elem(self, 2, r) \otimes arg.val.z
                 \oplus Elem(self, 3, r) \otimes arg.val.w

(***************************************************************************)
(* C3.  mat4() is a two-sided identity of the matrix product: M * mat4()   *)
(* is M and mat4() * M is M, in all 16 components.                         *)
(***************************************************************************)
C3_DefaultMatrixIsIdentity ==
  op = "mat*mat" =>
    /\ arg.val = mat4(f32(1)) => ret = self
    /\ self = mat4(f32(1)) => ret = arg.val

C3_Witness ==
  /\ op = "mat*mat"
  /\ self = Dense(1)
  /\ arg.val = mat4(f32(1))
  /\ ret = Dense(1)

(***************************************************************************)
(* C4.  A * B is the standard 4x4 product under the m{column}{row} naming: *)
(* the element at column c, row r is the sum over k of                     *)
(* A(column k, row r) * B(column c, row k); A and B are left unchanged.    *)
(***************************************************************************)
C4_MatMulIsStandardProduct ==
  [][op' = "mat*mat" =>
       /\ \A c \in 0..3, r \in 0..3 :
            Elem(ret', c, r) =
              Elem(self, 0, r) \otimes Elem(arg.val, c, 0)
                \oplus Elem(self, 1, r) \otimes Elem(arg.val, c, 1)
                \oplus Elem(self, 2, r) \otimes Elem(arg.val, c, 2)
                \oplus Elem(self, 3, r) \otimes Elem(arg.val, c, 3)
       /\ self' = self
       /\ arg' = arg]_vars

C4_Witness ==
  /\ op = "mat*mat"
  /\ self = Dense(1)
  /\ arg.val = Dense(2)
  /\ ret = MatProduct(Dense(1), Dense(2))
  /\ ret # MatProduct(Dense(2), Dense(1))

(***************************************************************************)
(* C5.  M.translate(t) leaves M equal to (old M) * T, T the identity with  *)
(* (m30, m31, m32) = t; so mat4().scale(s).translate(t) has the            *)
(* translation column (s.x * t.x, s.y * t.y, s.z * t.z).                   *)
(***************************************************************************)
C5_TranslateRightMultiplies ==
  [][/\ op' = "translate" =>
          self' = MatProduct(self, TranslationMatrix(arg'.val))
     /\ (/\ Len(hist') = 3
         /\ hist'[1] = Call("mat4", f32(1))
         /\ hist'[2].op = "scale"
         /\ hist'[3].op = "translate") =>
          /\ self'.m30 = hist'[2].arg.x \otimes hist'[3].arg.x
          /\ self'.m31 = hist'[2].arg.y \otimes hist'[3].arg.y
          /\ self'.m32 = hist'[2].arg.z \otimes hist'[3].arg.z]_vars

C5_Witness ==
  /\ op = "translate"
  /\ hist = <<Call("mat4", f32(1)),
              Call("scale", vec3(f32(1), f32(2), f32(3))),
              Call("translate", vec3(f32(1), f32(2), f32(3)))>>
  /\ <<self.m30, self.m31, self.m32>> = <<f32(1), f32(4), f32(9)>>

(***************************************************************************)
(* C6.  translated / scaled / rotated return the matrix that translate /   *)
(* scale / rotate would leave in a copy of the receiver, and leave the     *)
(* receiver's 16 components as they were.  The mutating forms change the   *)
(* receiver only: their argument is the same after the call as before.     *)
(***************************************************************************)
C6_NonMutatingFormsLeaveReceiver ==
  [][/\ op' = "translated" =>
          self' = self /\ arg' = arg /\ ret' = translate(self, arg.val)
     /\ op' = "scaled" =>
          self' = self /\ arg' = arg /\ ret' = scale(self, arg.val)
     /\ op' = "rotated" =>
          self' = self /\ arg' = arg /\ ret' = rotate(self, arg.val)
     /\ op' = "rotated(axis,angle)" =>
          /\ self' = self
          /\ arg' = arg
          /\ ret' = rotate_axis_angle(self, arg.val.axis, arg.val.angle)
     /\ op' \in {"translate", "scale", "rotate", "rotate(axis,angle)"} =>
          arg' = arg /\ ret' = self']_vars

C6_Witness ==
  /\ op = "translated"
  /\ hist = <<Call("translate", vec3(f32(1), f32(2), f32(3)))>>
  /\ arg.val = vec3(f32(1), f32(2), f32(3))
  /\ ret # self
  /\ ret = MatProduct(self, TranslationMatrix(arg.val))
  /\ self = MatProduct(mat4(f32(2)), TranslationMatrix(arg.val))

(***************************************************************************)
(* C7.  mat4().translate(t) * vec4(px, py, pz, 1) is                       *)
(* (px + t.x, py + t.y, pz + t.z, 1); translating the identity by (1,2,3)  *)
(* and transforming (0,0,0,1) yields (1,2,3,1).                            *)
(***************************************************************************)
C7_TranslatedIdentityMovesPoint ==
  (/\ op = "mat*vec"
   /\ Len(hist) = 2
   /\ hist[1] = Call("mat4", f32(1))
   /\ hist[2].op = "translate"
   /\ arg.val.w = f32(1)) =>
    ret = vec4(arg.val.x \oplus hist[2].arg.x, arg.val.y \oplus hist[2].arg.y,
               arg.val.z \oplus hist[2].arg.z, f32(1))

C7_Witness ==
  /\ op = "mat*vec"
  /\ hist = <<Call("mat4", f32(1)),
              Call("translate", vec3(f32(1), f32(2), f32(3)))>>
  /\ arg.val = vec4(f32(0), f32(0), f32(0), f32(1))
  /\ ret = vec4(f32(1), f32(2), f32(3), f32(1))

(***************************************************************************)
(* C8.  For every quaternion q, unit length or not, mat4(q) has m33 = 1    *)
(* and m30, m31, m32, m03, m13, m23 all 0.                                 *)
(***************************************************************************)
C8_QuatMatrixIsRotationOnly ==
  op = "mat4(quat)" =>
    /\ ret.m33 = f32(1)
    /\ <<ret.m30, ret.m31, ret.m32, ret.m03, ret.m13, ret.m23>>
         = <<f32(0), f32(0), f32(0), f32(0), f32(0), f32(0)>>

C8_Witness ==
  /\ op = "mat4(quat)"
  /\ arg.val = quat(f32(1), f32(2), f32(0 - 2), f32(1))
  /\ ret.m00 = f32(0 - 15)
  /\ ret.m33 = f32(1)

(***************************************************************************)
(* C9.  mat4::perspective(fovy, ar, n, f) with n, f, fovy > 0 returns a    *)
(* matrix with m33 = 0 and m23 = -1.                                       *)
(***************************************************************************)
C9_PerspectiveBottomRow ==
  (/\ op = "perspective"
   /\ f32_is_positive(arg.val.n)
   /\ f32_is_positive(arg.val.f)
   /\ f32_is_positive(arg.val.fovy)) =>
    /\ ret.m33 = f32(0)
    /\ ret.m23 = f32(0 - 1)

C9_Witness ==
  /\ op = "perspective"
  /\ arg.val = [fovy |-> radians(f32(45)), ar |-> f32(2), n |-> f32(1),
                f |-> f32(2)]
  /\ ret.m00 = <<10125945, 0 - 23>>
  /\ ret.m11 = <<10125945, 0 - 22>>
  /\ ret.m22 = f32(0 - 3)
  /\ ret.m32 = f32(0 - 4)
  /\ ret.m33 = f32(0)

(***************************************************************************)
(* C10.  Starting from mat4(), every sequence of translate, scale and      *)
(* rotate calls leaves the bottom row (m03, m13, m23, m33) = (0, 0, 0, 1). *)
(***************************************************************************)
C10_AffineFormPreserved ==
  hist[1] = Call("mat4", f32(1)) =>
    <<self.m03, self.m13, self.m23, self.m33>>
      = <<f32(0), f32(0), f32(0), f32(1)>>

C10_Witness ==
  /\ hist[1] = Call("mat4", f32(1))
  /\ Len(hist) = 3
  /\ hist[2].op = "rotate(axis,angle)"
  /\ hist[3].op = "translate"
  /\ self.m30 # f32(0)
  /\ self.m00 # f32(0)
  /\ <<self.m03, self.m13, self.m23, self.m33>>
       = <<f32(0), f32(0), f32(0), f32(1)>>
====
